---- MODULE Spec2Model ----
(***************************************************************************)
(* Model of utils/data_utils.py: the CIFAR and ImageNet data modules with  *)
(* their test loaders (MMD and CADet comparison sets), and the dataset     *)
(* attackers that perturb a class-partitioned image folder and write the   *)
(* result back to disk.                                                    *)
(*                                                                         *)
(* The torch / lightning collaborators (RandomSampler, DataLoader,         *)
(* CombinedLoader, ImageFolder, PIL) are modelled by what they do at the   *)
(* call sites of data_utils.py.                                            *)
(***************************************************************************)
EXTENDS Integers, Sequences, FiniteSets, TLC

\* ------------------------------------------------------------------ bounds
MaxSize == 2
\* largest candidate sample size in mmd_sample_sizes
MaxTests == 2
\* largest mmd_n_tests
MaxCadet == 3
\* largest cadet_n_tests
MaxData == 2
\* largest collection length
MaxBatch == 2
\* largest batch_size argument
MaxSamples == 3
\* largest num_samples given to attack()

\* ------------------------------------------------------------- vocabulary
CIFARModes == {"supervised", "unsupervised", "mmd"}
ImageNetModes == {"supervised", "unsupervised", "mmd", "cadet"}
ImageSetsQ == {"imagenet_o", "inaturalist", "pgd", "cw", "fgsm"}
Stages == {"fit", "test", "validate"}

\* Every mode / source name a caller may pass, recognised or not.
AnyMode == ImageNetModes \cup {"other"}
AnyImageSet == ImageSetsQ \cup {"other"}

\* Lengths a collection on disk may have.
DataLens == {1, MaxData}

\* Attributes holding datasets (0 = attribute not set).
Attrs == {"train_dataset", "val_dataset", "test_dataset",
          "dataset_s", "dataset_q", "test_dataset_s", "test_dataset_q",
          "test_dataset_same_dist", "test_dataset_imagenet_o",
          "test_dataset_inaturalist", "test_dataset_pgd",
          "test_dataset_cw", "test_dataset_fgsm"}

\* The argument records the constructors are called with.  Fields a mode
\* never reads stay at one default value.
Args ==
    { a \in [mode : AnyMode, batch_size : 1..MaxBatch,
             mmd_sample_sizes : SUBSET (1..MaxSize), mmd_n_tests : 0..MaxTests,
             mmd_image_set_q : AnyImageSet, cadet_n_tests : 0..MaxCadet] :
        /\ a.mode # "supervised" => a.batch_size = 1
        /\ a.mode # "mmd" => /\ a.mmd_sample_sizes = {1}
                             /\ a.mmd_n_tests = 1
                             /\ a.mmd_image_set_q \in {"imagenet_o", "other"}
        /\ a.mode # "cadet" => a.cadet_n_tests = 1 }

NoArgs == [mode |-> "none"]

VARIABLES
    obj,        \* which class was constructed: "none", "CIFAR", "ImageNet", ...
    status,     \* "start", "init", "setup", "loader", "iter", "done", "raised", "none"
    err,        \* the exception raised, "" when none
    args,       \* the fields __init__ copied from args
    datasets,   \* [Attrs -> length], the dataset attributes set by setup
    loaders,    \* the DataLoaders of the returned loader, in dict order
    combined,   \* TRUE when the returned loader is a CombinedLoader
    it,         \* one sampler/iterator state per loader
    group,      \* the last group yielded: batch length per stream
    groups,     \* number of groups (batches) yielded so far
    att,        \* the attacker's fields: device, pre-attack resize, input_size
    dataset,    \* AttackDataset.samples with each image's native size
    order,      \* the dataset indices fetched so far, in order
    call,       \* the devices of the arguments of the last attacker call
    files,      \* the files written under target_path
    raisedAt    \* the batch on which the attacker raised, 0 when it has not

dmvars == <<datasets, combined, group>>
atvars == <<att, dataset, order, call, files, raisedAt>>
vars == <<obj, status, err, args, datasets, loaders, combined, it, group, groups,
          att, dataset, order, call, files, raisedAt>>

\* ---------------------------------------------------------------- helpers
Max(S) == CHOOSE x \in S : \A y \in S : y <= x
Min2(a, b) == IF a <= b THEN a ELSE b

\* ------------------------------------------------- torch.utils.data pieces
\* RandomSampler(data_source, replacement, num_samples): the constructor
\* rejects a num_samples that is not a positive integer.
RandomSamplerOK(num_samples) == num_samples >= 1

RandomSampler(key, len, replacement, num_samples, batch_size, drop_last) ==
    [key |-> key, len |-> len, sampler |-> "random", replacement |-> replacement,
     num_samples |-> num_samples, batch_size |-> batch_size, drop_last |-> drop_last]

\* DataLoader(..., shuffle=False) with no sampler: SequentialSampler.
SequentialLoader(key, len, batch_size, drop_last) ==
    [key |-> key, len |-> len, sampler |-> "sequential", replacement |-> FALSE,
     num_samples |-> len, batch_size |-> batch_size, drop_last |-> drop_last]

\* A fresh iterator over a loader: nothing drawn, no batch fetched.
\* cnt[i] counts how often index i was returned; draws with replacement are
\* unconstrained, so for them only the total is kept.
NewIter(cfg) == [tot |-> 0, cnt |-> [i \in 1..cfg.len |-> 0], batches |-> 0]

\* The indices the sampler may return next.
\*   sequential:        the next index in order
\*   with replacement:  any index (randint)
\*   without:           num_samples // n whole permutations, then the first
\*                      num_samples % n of one more: an index not yet in the
\*                      current permutation
NextIndices(cfg, s) ==
    IF cfg.sampler = "sequential" THEN {s.tot + 1}
    ELSE IF cfg.replacement THEN 1..cfg.len
    ELSE {i \in 1..cfg.len : s.cnt[i] = s.tot \div cfg.len}

DrawOne(cfg, s) ==
    IF cfg.sampler = "random" /\ cfg.replacement
    THEN {[s EXCEPT !.tot = @ + 1]}
    ELSE {[s EXCEPT !.tot = @ + 1, !.cnt[i] = @ + 1] : i \in NextIndices(cfg, s)}

RECURSIVE DrawK(_, _, _)
DrawK(cfg, s, k) ==
    IF k = 0 THEN {s}
    ELSE UNION {DrawK(cfg, s2, k - 1) : s2 \in DrawOne(cfg, s)}

Remaining(cfg, s) == cfg.num_samples - s.tot

\* A batch sampler that stops one batch early when drop_last is set.
HasBatch_early(cfg, s) ==
    IF cfg.drop_last THEN Remaining(cfg, s) > cfg.batch_size
    ELSE Remaining(cfg, s) >= 1

\* BatchSampler: a batch is batch_size indices; a short last batch is
\* yielded only when drop_last is False.
HasBatch(cfg, s) ==
    IF cfg.drop_last THEN Remaining(cfg, s) >= cfg.batch_size
    ELSE Remaining(cfg, s) >= 1

BatchLen(cfg, s) == Min2(cfg.batch_size, Remaining(cfg, s))

\* next(iter): the iterator states after fetching one batch.
FetchBatch(cfg, s) ==
    {[s2 EXCEPT !.batches = @ + 1] : s2 \in DrawK(cfg, s, BatchLen(cfg, s))}

\* next(iter) on an exhausted loader: the sampler is drained, StopIteration.
Drain(cfg, s) == DrawK(cfg, s, Remaining(cfg, s))

\* --------------------------------------------------------- CIFARDataModule
\* assert self.mode in ['supervised', 'unsupervised', 'mmd']
CIFAR_ArgsOK(a) == a.mode \in {"supervised", "unsupervised", "mmd"}

CIFARDataModule_init(a) ==
    /\ status = "start"
    /\ obj' = "CIFAR"
    /\ args' = a
    /\ IF CIFAR_ArgsOK(a)
       THEN status' = "init" /\ err' = ""
       ELSE status' = "raised" /\ err' = "AssertionError"
    /\ UNCHANGED <<datasets, loaders, combined, it, group, groups>>
    /\ UNCHANGED atvars

\* The dataset attributes setup(stage) assigns.
CIFAR_setup_attrs(mode, stage) ==
    IF mode = "supervised" /\ stage = "fit" THEN {"train_dataset", "val_dataset"}
    ELSE IF mode = "supervised" /\ stage \in {"test", "validate"} THEN {"val_dataset"}
    ELSE IF mode = "unsupervised" /\ stage = "fit" THEN {"train_dataset", "val_dataset"}
    ELSE IF mode = "mmd" /\ stage = "test" THEN {"dataset_s", "dataset_q"}
    ELSE {}

\* Each assigned attribute is a dataset read from disk, of some length.
Assign(set) ==
    \E lens \in [set -> DataLens] :
        datasets' = [x \in Attrs |-> IF x \in set THEN lens[x] ELSE datasets[x]]

CIFAR_setup(stage) ==
    /\ obj = "CIFAR" /\ status = "init"
    /\ Assign(CIFAR_setup_attrs(args.mode, stage))
    /\ status' = "setup"
    /\ UNCHANGED <<obj, err, args, loaders, combined, it, group, groups>>
    /\ UNCHANGED atvars

\* batch_size = max(self.mmd_sample_sizes)
MMD_batch_size(a) == Max(a.mmd_sample_sizes)

\* num_samples = batch_size * self.mmd_n_tests
MMD_num_samples(a) == MMD_batch_size(a) * a.mmd_n_tests

\* The two loaders of CIFARDataModule.test_dataloader, mode 'mmd', as in an
\* ImageNet-style variant that draws both streams at 3x.
CIFAR_mmd_loaders_equal(a, d) ==
    << RandomSampler("s", d["dataset_s"], TRUE, 3 * MMD_num_samples(a),
                     MMD_batch_size(a) * 3, TRUE),
       RandomSampler("q", d["dataset_q"], TRUE, 3 * MMD_num_samples(a),
                     MMD_batch_size(a) * 3, TRUE) >>

\* sampler_s / sampler_q and dataloader_s / dataloader_q, mode 'mmd'.
CIFAR_mmd_loaders(a, d) ==
    << RandomSampler("s", d["dataset_s"], TRUE, 3 * MMD_num_samples(a),
                     MMD_batch_size(a) * 3, TRUE),
       RandomSampler("q", d["dataset_q"], TRUE, MMD_num_samples(a),
                     MMD_batch_size(a), TRUE) >>

Raise(e) == [err |-> e, combined |-> FALSE, loaders |-> << >>]
Return(c, ls) == [err |-> "", combined |-> c, loaders |-> ls]
ReturnNone == [err |-> "None", combined |-> FALSE, loaders |-> << >>]

CIFAR_test_loader(a, d) ==
    IF a.mode = "supervised"
    THEN IF d["val_dataset"] = 0 THEN Raise("AttributeError")
         ELSE Return(FALSE, << SequentialLoader("val", d["val_dataset"], a.batch_size, TRUE) >>)
    ELSE IF a.mode = "mmd"
    THEN IF a.mmd_sample_sizes = {} THEN Raise("ValueError")
         ELSE IF d["dataset_s"] = 0 THEN Raise("AttributeError")
         ELSE IF ~RandomSamplerOK(3 * MMD_num_samples(a)) THEN Raise("ValueError")
         ELSE Return(TRUE, CIFAR_mmd_loaders(a, d))
    ELSE ReturnNone

\* The state after test_dataloader returned r (or raised).
Returned(r) ==
    /\ err' = IF r.err = "None" THEN "" ELSE r.err
    /\ status' = IF r.err = "" THEN "loader" ELSE IF r.err = "None" THEN "none" ELSE "raised"
    /\ combined' = r.combined
    /\ loaders' = r.loaders
    /\ it' = [i \in 1..Len(r.loaders) |-> NewIter(r.loaders[i])]
    /\ UNCHANGED <<obj, args, datasets, group, groups>>
    /\ UNCHANGED atvars

CIFAR_test_dataloader ==
    /\ obj = "CIFAR" /\ status = "setup"
    /\ Returned(CIFAR_test_loader(args, datasets))

\* ------------------------------------------------------ ImageNetDataModule
\* The constructor's checks with the source-name assertion left out.
ImageNet_ArgsOK_mode_only(a) ==
    a.mode \in {"supervised", "unsupervised", "mmd", "cadet"}

\* assert self.mode in [...]; assert self.mmd_image_set_q in [...]
ImageNet_ArgsOK(a) ==
    /\ a.mode \in {"supervised", "unsupervised", "mmd", "cadet"}
    /\ a.mmd_image_set_q \in {"imagenet_o", "inaturalist", "pgd", "cw", "fgsm"}

ImageNetDataModule_init(a) ==
    /\ status = "start"
    /\ obj' = "ImageNet"
    /\ args' = a
    /\ IF ImageNet_ArgsOK(a)
       THEN status' = "init" /\ err' = ""
       ELSE status' = "raised" /\ err' = "AssertionError"
    /\ UNCHANGED <<datasets, loaders, combined, it, group, groups>>
    /\ UNCHANGED atvars

CadetAttrs == <<"test_dataset_same_dist", "test_dataset_imagenet_o",
                "test_dataset_inaturalist", "test_dataset_pgd",
                "test_dataset_cw", "test_dataset_fgsm">>

ImageNet_setup_attrs(mode, stage) ==
    IF mode = "supervised" /\ stage = "fit" THEN {"train_dataset", "val_dataset"}
    ELSE IF mode = "supervised" /\ stage = "test" THEN {"test_dataset"}
    ELSE IF mode = "unsupervised" /\ stage = "fit" THEN {"train_dataset", "val_dataset"}
    ELSE IF mode = "mmd" /\ stage = "test" THEN {"test_dataset_s", "test_dataset_q"}
    ELSE IF mode = "cadet" /\ stage = "test" THEN {CadetAttrs[i] : i \in 1..Len(CadetAttrs)}
    ELSE {}

ImageNet_setup(stage) ==
    /\ obj = "ImageNet" /\ status = "init"
    /\ Assign(ImageNet_setup_attrs(args.mode, stage))
    /\ status' = "setup"
    /\ UNCHANGED <<obj, err, args, loaders, combined, it, group, groups>>
    /\ UNCHANGED atvars

\* The two loaders of mode 'mmd' as in the CIFAR variant: 'q' at 1x.
ImageNet_mmd_loaders_cifar(a, d) ==
    << RandomSampler("s", d["test_dataset_s"], TRUE, 3 * MMD_num_samples(a),
                     MMD_batch_size(a) * 3, TRUE),
       RandomSampler("q", d["test_dataset_q"], TRUE, MMD_num_samples(a),
                     MMD_batch_size(a), TRUE) >>

\* sampler_test_s / sampler_test_q and their loaders, mode 'mmd'.
ImageNet_mmd_loaders(a, d) ==
    << RandomSampler("s", d["test_dataset_s"], TRUE, 3 * MMD_num_samples(a),
                     MMD_batch_size(a) * 3, TRUE),
       RandomSampler("q", d["test_dataset_q"], TRUE, 3 * MMD_num_samples(a),
                     MMD_batch_size(a) * 3, TRUE) >>

CadetKeys == <<"imagenet", "imagenet_o", "inaturalist", "pgd", "cw", "fgsm">>

\* The six samplers and loaders of mode 'cadet': replacement=False,
\* num_samples=cadet_n_tests, batch_size=1, drop_last left at False.
ImageNet_cadet_loaders(a, d) ==
    [i \in 1..Len(CadetKeys) |->
        RandomSampler(CadetKeys[i], d[CadetAttrs[i]], FALSE, a.cadet_n_tests, 1, FALSE)]

ImageNet_test_loader(a, d) ==
    IF a.mode = "supervised"
    THEN IF d["test_dataset"] = 0 THEN Raise("AttributeError")
         ELSE Return(FALSE, << SequentialLoader("test", d["test_dataset"], a.batch_size, TRUE) >>)
    ELSE IF a.mode = "mmd"
    THEN IF a.mmd_sample_sizes = {} THEN Raise("ValueError")
         ELSE IF d["test_dataset_s"] = 0 THEN Raise("AttributeError")
         ELSE IF ~RandomSamplerOK(3 * MMD_num_samples(a)) THEN Raise("ValueError")
         ELSE Return(TRUE, ImageNet_mmd_loaders(a, d))
    ELSE IF a.mode = "cadet"
    THEN IF d["test_dataset_same_dist"] = 0 THEN Raise("AttributeError")
         ELSE IF ~RandomSamplerOK(a.cadet_n_tests) THEN Raise("ValueError")
         ELSE Return(TRUE, ImageNet_cadet_loaders(a, d))
    ELSE ReturnNone

ImageNet_test_dataloader ==
    /\ obj = "ImageNet" /\ status = "setup"
    /\ Returned(ImageNet_test_loader(args, datasets))

\* ---------------------------------------------------------- CombinedLoader
\* CombinedLoader(dict) iterates in its default mode, min_size: each step
\* calls next() on the streams in dict order and the first StopIteration
\* ends the iteration.
RECURSIVE FirstExhaustedFrom(_, _, _)
FirstExhaustedFrom(ls, its, i) ==
    IF i > Len(ls) THEN 0
    ELSE IF ~HasBatch(ls[i], its[i]) THEN i
    ELSE FirstExhaustedFrom(ls, its, i + 1)

FirstExhausted(ls, its) == FirstExhaustedFrom(ls, its, 1)

RECURSIVE SeqProduct(_)
SeqProduct(sets) ==
    IF Len(sets) = 0 THEN {<< >>}
    ELSE {<<h>> \o t : h \in Head(sets), t \in SeqProduct(Tail(sets))}

\* The iterator states one step of the combined iteration may leave.
StepChoices(ls, its) ==
    LET k == FirstExhausted(ls, its)
    IN  SeqProduct([i \in 1..Len(ls) |->
            IF k = 0 \/ i < k THEN FetchBatch(ls[i], its[i])
            ELSE IF i = k THEN Drain(ls[i], its[i])
            ELSE {its[i]}])

Loader_next ==
    /\ obj \in {"CIFAR", "ImageNet"}
    /\ status \in {"loader", "iter"}
    /\ it' \in StepChoices(loaders, it)
    /\ IF FirstExhausted(loaders, it) = 0
       THEN /\ status' = "iter"
            /\ group' = [i \in 1..Len(loaders) |-> BatchLen(loaders[i], it[i])]
            /\ groups' = groups + 1
       ELSE /\ status' = "done"
            /\ UNCHANGED <<group, groups>>
    /\ UNCHANGED <<obj, err, args, datasets, loaders, combined>>
    /\ UNCHANGED atvars

\* ------------------------------------------------------------ image folders
\* Class directories and file names, numbered in sorted order; native
\* (width, height) of an image; input_size = [h, w]; devices.
ClassDirs == {1, 2}
FileNames == {1, 2}
Sizes == {<<1, 2>>, <<2, 1>>}
InputSizes == {<<2, 2>>, <<3, 1>>}
Devices == {"cpu", "cuda"}

Images == [cls : ClassDirs, name : FileNames, size : Sizes]

\* The trees <image_path>/<class>/<file> an attacker may be pointed at.
Trees ==
    {t \in SUBSET Images :
        /\ Cardinality(t) \in 1..MaxData
        /\ \A f, g \in t : (f.cls = g.cls /\ f.name = g.name) => f = g}

\* ImageFolder: classes are the sorted directory names, class_to_idx numbers
\* them from 0, samples are (path, class index) sorted by class, then name.
class_to_idx(classes, c) == Cardinality({d \in classes : d < c})

Before(f, g) == f.cls < g.cls \/ (f.cls = g.cls /\ f.name < g.name)

ImageFolder(t) ==
    LET n == Cardinality(t)
        classes == {f.cls : f \in t}
        sorted == CHOOSE q \in [1..n -> t] :
                      \A i, j \in 1..n : i < j => Before(q[i], q[j])
    IN  [classes |-> classes,
         samples |-> [i \in 1..n |->
             [path |-> <<"image_path", sorted[i].cls, sorted[i].name>>,
              target |-> class_to_idx(classes, sorted[i].cls),
              size |-> sorted[i].size]]]

\* self.idx_to_class = {v: k for k, v in self.class_to_idx.items()}
idx_to_class(ds, label) ==
    CHOOSE c \in ds.classes : class_to_idx(ds.classes, c) = label

\* -------------------------------------------------------------- transforms
\* A PIL image has size (width, height); a tensor has shape (height, width).
\* T.Resize(size=[h, w]) gives a PIL image of size (w, h).
Resize(input_size, img) == [img EXCEPT !.size = <<input_size[2], input_size[1]>>]
ToTensor(img) == [src |-> img.src, shape |-> <<img.size[2], img.size[1]>>]
ToPILImage(t) == [src |-> t.src, size |-> <<t.shape[2], t.shape[1]>>]
PIL_resize(img, size) == [img EXCEPT !.size = size]

\* pre_attack_transform: Compose([Resize(input_size), ToTensor()]) in
\* DatasetAttacker, ToTensor() alone in DatasetAttacker_NoResize.
pre_attack_transform(a, img) ==
    IF a.resize THEN ToTensor(Resize(a.input_size, img)) ELSE ToTensor(img)

\* ------------------------------------------------------------ AttackDataset
\* __getitem__ with the size read off the transformed sample instead.
AttackDataset_getitem_after(ds, a, index) ==
    LET smp == ds.samples[index]
        sample == pre_attack_transform(a, [src |-> index, size |-> smp.size])
    IN  [sample |-> sample,
         target |-> smp.target,
         image_size |-> <<sample.shape[2], sample.shape[1]>>,
         image_name |-> smp.path[Len(smp.path)]]

\* __getitem__: load, record sample.size and the file name, then transform.
AttackDataset_getitem(ds, a, index) ==
    LET smp == ds.samples[index]
        sample == [src |-> index, size |-> smp.size]
        image_size == sample.size
        image_name == smp.path[Len(smp.path)]
    IN  [sample |-> pre_attack_transform(a, sample),
         target |-> smp.target,
         image_size |-> image_size,
         image_name |-> image_name]

\* default_collate: the batch's tensors, all on the cpu.
Collate(items) ==
    [images |-> [items |-> [j \in 1..Len(items) |-> items[j].sample], device |-> "cpu"],
     labels |-> [vals |-> [j \in 1..Len(items) |-> items[j].target], device |-> "cpu"],
     image_sizes |-> [j \in 1..Len(items) |-> items[j].image_size],
     image_names |-> [j \in 1..Len(items) |-> items[j].image_name]]

\* tensor.to(device)
To(t, device) == [t EXCEPT !.device = device]

\* ------------------------------------------------------------ the attackers
NoAtt == [device |-> "none", resize |-> FALSE, input_size |-> << >>]
NoCall == [images |-> "none", labels |-> "none"]
NoDataset == [classes |-> {}, samples |-> << >>]

DatasetAttacker_init(t, device, input_size) ==
    /\ status = "start"
    /\ obj' = "Attacker"
    /\ status' = "init"
    /\ att' = [device |-> device, resize |-> TRUE, input_size |-> input_size]
    /\ dataset' = ImageFolder(t)
    /\ UNCHANGED <<err, args, loaders, it, groups, order, call, files, raisedAt>>
    /\ UNCHANGED dmvars

DatasetAttacker_NoResize_init(t, device) ==
    /\ status = "start"
    /\ obj' = "NoResize"
    /\ status' = "init"
    /\ att' = [device |-> device, resize |-> FALSE, input_size |-> << >>]
    /\ dataset' = ImageFolder(t)
    /\ UNCHANGED <<err, args, loaders, it, groups, order, call, files, raisedAt>>
    /\ UNCHANGED dmvars

\* The loader of attack() with the sampler drawing with replacement.
Attack_loader_replacement(given, n, len, batch_size) ==
    IF given THEN RandomSampler("attack", len, TRUE, n, batch_size, FALSE)
    ELSE SequentialLoader("attack", len, batch_size, FALSE)

\* sampler = None if num_samples is None else RandomSampler(dataset, num_samples)
\* DataLoader(dataset, batch_size, sampler=sampler, shuffle=False)
Attack_loader(given, n, len, batch_size) ==
    IF given THEN RandomSampler("attack", len, FALSE, n, batch_size, FALSE)
    ELSE SequentialLoader("attack", len, batch_size, FALSE)

\* The first two lines of attack(): given = FALSE is num_samples=None.
Attack_begin(given, n, batch_size) ==
    /\ status = "init"
    /\ args' = [mode |-> "attack", given |-> given, num_samples |-> n,
                batch_size |-> batch_size]
    /\ IF given /\ ~RandomSamplerOK(n)
       THEN /\ status' = "raised"
            /\ err' = "ValueError"
            /\ UNCHANGED <<loaders, it>>
       ELSE /\ status' = "loader"
            /\ err' = ""
            /\ loaders' = << Attack_loader(given, n, Len(dataset.samples), batch_size) >>
            /\ it' = << NewIter(loaders'[1]) >>
    /\ UNCHANGED <<obj, groups>>
    /\ UNCHANGED atvars
    /\ UNCHANGED dmvars

DatasetAttacker_attack(given, n, batch_size) ==
    /\ obj = "Attacker"
    /\ Attack_begin(given, n, batch_size)

DatasetAttacker_NoResize_attack(given, n) ==
    /\ obj = "NoResize"
    /\ Attack_begin(given, n, 1)

\* The sampler's state after returning index i, and the index sequences a
\* batch of k may hold.
Advance(s, i) == [s EXCEPT !.tot = @ + 1, !.cnt[i] = @ + 1]

RECURSIVE IndexSeqs(_, _, _)
IndexSeqs(cfg, s, k) ==
    IF k = 0 THEN {<< >>}
    ELSE UNION {{<<i>> \o t : t \in IndexSeqs(cfg, Advance(s, i), k - 1)} :
                    i \in NextIndices(cfg, s)}

RECURSIVE AdvanceAll(_, _)
AdvanceAll(s, idx) ==
    IF Len(idx) = 0 THEN s ELSE AdvanceAll(Advance(s, Head(idx)), Tail(idx))

\* self.attacker(images, labels): the arguments the loop hands over, given
\* the loaded images, their device copy adv_images, and the device copy of
\* the labels.
AttackerArgs(images, adv_images, labels) == <<images, labels>>

\* The attack function is opaque: it returns one perturbed image per input,
\* in the input's order.
Attacker(images, labels) == images

\* The label zipped with the j-th image, were every item given the first.
SaveLabel_first(labels, j) == labels.vals[1]

\* zip(images, labels, image_sizes, image_names): the j-th label.
SaveLabel(labels, j) == labels.vals[j]

\* One pass of the loop body of DatasetAttacker.save.
DatasetAttacker_save_file(ds, image, label, image_size, image_name, b) ==
    LET x == PIL_resize(ToPILImage(image), image_size)
    IN  [dir |-> idx_to_class(ds, label), name |-> image_name,
         src |-> x.src, size |-> x.size, batch |-> b]

\* One pass of the loop body of DatasetAttacker_NoResize.save.
DatasetAttacker_NoResize_save_file(ds, image, label, image_size, image_name, b) ==
    LET x == ToPILImage(image)
    IN  [dir |-> idx_to_class(ds, label), name |-> image_name,
         src |-> x.src, size |-> x.size, batch |-> b]

\* x.save(path): an existing file at the path is overwritten.
Write(fs, f) == {g \in fs : ~(g.dir = f.dir /\ g.name = f.name)} \cup {f}

RECURSIVE Save(_, _, _, _, _, _, _, _, _)
Save(fs, ds, resize, images, labels, image_sizes, image_names, b, j) ==
    IF j > Len(images.items) \/ j > Len(labels.vals)
       \/ j > Len(image_sizes) \/ j > Len(image_names)
    THEN fs
    ELSE LET f == IF resize
                  THEN DatasetAttacker_save_file(ds, images.items[j], SaveLabel(labels, j),
                                                 image_sizes[j], image_names[j], b)
                  ELSE DatasetAttacker_NoResize_save_file(ds, images.items[j], SaveLabel(labels, j),
                                                 image_sizes[j], image_names[j], b)
         IN  Save(Write(fs, f), ds, resize, images, labels, image_sizes, image_names, b, j + 1)

\* An exception of the attacker, swallowed by the loop.
AfterRaise_continue == "iter"

\* The loop has no handler: an exception of the attacker leaves attack().
AfterRaise == "raised"

\* One iteration of the for loop of attack(): fetch a batch, move it to the
\* device, attack, save; or leave the loop when the loader is exhausted.
Attack_iteration ==
    /\ obj \in {"Attacker", "NoResize"}
    /\ status \in {"loader", "iter"}
    /\ IF ~HasBatch(loaders[1], it[1])
       THEN /\ status' = "done"
            /\ UNCHANGED <<err, it, groups, order, call, files, raisedAt>>
       ELSE \E idx \in IndexSeqs(loaders[1], it[1], BatchLen(loaders[1], it[1])),
               raises \in BOOLEAN :
            LET batch == Collate([j \in 1..Len(idx) |->
                                    AttackDataset_getitem(dataset, att, idx[j])])
                adv_images == To(batch.images, att.device)
                labels == To(batch.labels, att.device)
                passed == AttackerArgs(batch.images, adv_images, labels)
                b == groups + 1
            IN  /\ it' = << [AdvanceAll(it[1], idx) EXCEPT !.batches = @ + 1] >>
                /\ groups' = b
                /\ order' = order \o idx
                /\ call' = [images |-> passed[1].device, labels |-> passed[2].device]
                /\ IF raises
                   THEN /\ status' = AfterRaise
                        /\ err' = "AttackerError"
                        /\ raisedAt' = IF raisedAt = 0 THEN b ELSE raisedAt
                        /\ UNCHANGED files
                   ELSE /\ status' = "iter"
                        /\ files' = Save(files, dataset, att.resize,
                                         Attacker(passed[1], passed[2]), labels,
                                         batch.image_sizes, batch.image_names, b, 1)
                        /\ UNCHANGED <<err, raisedAt>>
    /\ UNCHANGED <<obj, args, loaders, att, dataset>>
    /\ UNCHANGED dmvars

\* ------------------------------------------------------------ specification
Init ==
    /\ obj = "none"
    /\ status = "start"
    /\ err = ""
    /\ args = NoArgs
    /\ datasets = [x \in Attrs |-> 0]
    /\ loaders = << >>
    /\ combined = FALSE
    /\ it = << >>
    /\ group = << >>
    /\ groups = 0
    /\ att = NoAtt
    /\ dataset = NoDataset
    /\ order = << >>
    /\ call = NoCall
    /\ files = {}
    /\ raisedAt = 0

Next ==
    \/ status = "start" /\ \E a \in Args : CIFARDataModule_init(a)
    \/ status = "start" /\ \E a \in Args : ImageNetDataModule_init(a)
    \/ \E stage \in Stages : CIFAR_setup(stage)
    \/ \E stage \in Stages : ImageNet_setup(stage)
    \/ CIFAR_test_dataloader
    \/ ImageNet_test_dataloader
    \/ Loader_next
    \/ status = "start" /\ \E t \in Trees, device \in Devices, input_size \in InputSizes :
            DatasetAttacker_init(t, device, input_size)
    \/ status = "start" /\ \E t \in Trees, device \in Devices :
            DatasetAttacker_NoResize_init(t, device)
    \/ \E given \in BOOLEAN, n \in 0..MaxSamples, batch_size \in 1..MaxBatch :
            DatasetAttacker_attack(given, IF given THEN n ELSE 0, batch_size)
    \/ \E given \in BOOLEAN, n \in 0..MaxSamples :
            DatasetAttacker_NoResize_attack(given, IF given THEN n ELSE 0)
    \/ Attack_iteration

Spec == Init /\ [][Next]_vars

\* ------------------------------------------------------------------ claims
IsDataModule == obj \in {"CIFAR", "ImageNet"}
IsAttacker == obj \in {"Attacker", "NoResize"}
HasLoader == status \in {"loader", "iter", "done"}

\* The number of batches a loader holds, from its configuration alone.
ExpectedBatches(cfg) ==
    IF cfg.drop_last THEN cfg.num_samples \div cfg.batch_size
    ELSE (cfg.num_samples + cfg.batch_size - 1) \div cfg.batch_size

\* How often dataset index i was fetched by attack().
Fetched(i) == Cardinality({k \in 1..Len(order) : order[k] = i})

\* C1: in CIFARDataModule.test_dataloader, mode 'mmd', stream 'q' is set to
\* draw max(S) * R indices and stream 's' 3 * max(S) * R, for every
\* non-empty S and every R the samplers accept; the counts stay as set
\* while the loader is iterated, and are the numbers of indices drawn once
\* the iteration has ended.
C1_CifarMmdCounts ==
    (obj = "CIFAR" /\ args.mode = "mmd" /\ HasLoader) =>
        LET m == Max(args.mmd_sample_sizes)
            R == args.mmd_n_tests
        IN  /\ Len(loaders) = 2
            /\ loaders[1].key = "s" /\ loaders[1].num_samples = 3 * m * R
            /\ loaders[2].key = "q" /\ loaders[2].num_samples = m * R
            /\ it[1].tot <= 3 * m * R /\ it[2].tot <= m * R
            /\ status = "done" => it[1].tot = 3 * m * R /\ it[2].tot = m * R

C1_Witness ==
    /\ obj = "CIFAR" /\ args.mode = "mmd" /\ status = "done"
    /\ args.mmd_sample_sizes = {1, 2} /\ args.mmd_n_tests = 2
    /\ it[1].tot = 12 /\ it[2].tot = 4

\* C2: the combined loader of modes 'mmd' and 'cadet' advances its streams
\* one batch per step, every group it yields holds a batch of every stream,
\* it never yields more groups than the shortest stream has batches, and
\* when it has stopped it has yielded exactly that many.
C2_LockstepMin ==
    (IsDataModule /\ combined /\ HasLoader) =>
        LET n == Len(loaders)
            shortest == CHOOSE x \in {ExpectedBatches(loaders[i]) : i \in 1..n} :
                            \A i \in 1..n : x <= ExpectedBatches(loaders[i])
        IN  /\ groups <= shortest
            /\ status = "done" => groups = shortest
            /\ status # "done" => \A i \in 1..n : it[i].batches = groups
            /\ \A i \in 1..n : it[i].batches \in {groups, groups + 1}
            /\ groups > 0 => /\ Len(group) = n
                             /\ \A i \in 1..n : group[i] = loaders[i].batch_size

C2_Witness ==
    /\ obj = "ImageNet" /\ args.mode = "cadet" /\ status = "done"
    /\ combined /\ Len(loaders) = 6 /\ groups = 3
    /\ \A i \in 1..6 : it[i].batches = 3

\* C3 (as claimed): in mode 'cadet' no stream ever returns an index twice,
\* and a pass never completes when cadet_n_tests exceeds the length of a
\* stream's collection.
C3_Claim ==
    (obj = "ImageNet" /\ args.mode = "cadet" /\ HasLoader) =>
        \A i \in 1..Len(loaders) :
            /\ \A j \in 1..loaders[i].len : it[i].cnt[j] <= 1
            /\ status = "done" => args.cadet_n_tests <= loaders[i].len

\* C4: every file written by the attackers has the native size of the
\* image it was made from, whatever input_size the image was resized to.
C4_NativeSizeRestored ==
    IsAttacker =>
        \A f \in files : f.size = dataset.samples[f.src].size

C4_Witness ==
    /\ obj = "Attacker"
    /\ \E f \in files :
        /\ f.size = dataset.samples[f.src].size
        /\ f.size # <<att.input_size[2], att.input_size[1]>>
        /\ f.size # att.input_size

\* C5: every file written is at <class name of the item's label>/<file name
\* of the item's source image>, and every item of a saved batch has its file.
C5_FileIdentity ==
    IsAttacker =>
        /\ \A f \in files :
              LET smp == dataset.samples[f.src]
              IN  f.dir = smp.path[2] /\ f.name = smp.path[3]
        /\ raisedAt = 0 =>
              \A k \in 1..Len(order) : \E f \in files : f.src = order[k]

C5_Witness ==
    /\ IsAttacker
    /\ \E f, g \in files :
        /\ f.batch = g.batch /\ f.dir # g.dir /\ f.name = g.name
        /\ f.dir # 1 /\ dataset.samples[g.src].target = 0

\* C6: once the attack function has raised on batch k, attack() has ended
\* with that error, batch k is the last batch fetched, and every file on
\* disk was written by a batch before k.
C6_AbortOnRaise ==
    (IsAttacker /\ raisedAt # 0) =>
        /\ status = "raised" /\ err = "AttackerError"
        /\ groups = raisedAt
        /\ it[1].batches = raisedAt
        /\ \A f \in files : f.batch < raisedAt

C6_Witness ==
    /\ IsAttacker /\ raisedAt = 2 /\ status = "raised"
    /\ files # {}
    /\ Remaining(loaders[1], it[1]) > 0

C8_ConfigRejected ==
    (IsDataModule /\ status # "start") =>
        LET ok == \/ obj = "CIFAR" /\ args.mode \in CIFARModes
                  \/ /\ obj = "ImageNet" /\ args.mode \in ImageNetModes
                     /\ args.mmd_image_set_q \in ImageSetsQ
        IN  /\ ~ok => /\ status = "raised" /\ err = "AssertionError"
                      /\ \A x \in Attrs : datasets[x] = 0
                      /\ loaders = << >> /\ it = << >>
            /\ ok => err # "AssertionError"

C8_Witness ==
    /\ obj = "ImageNet" /\ status = "raised" /\ err = "AssertionError"
    /\ args.mode = "cadet" /\ args.mmd_image_set_q = "other"
    /\ loaders = << >>

\* C9: in ImageNetDataModule.test_dataloader, mode 'mmd', streams 's' and
\* 'q' both draw 3 * max(S) * R indices with replacement in batches of
\* 3 * max(S), each holds R batches and the combined loader yields R
\* groups; in the CIFAR variant 'q' draws max(S) * R in batches of max(S).
C9_ImageNetMmdEqual ==
    (IsDataModule /\ args.mode = "mmd" /\ HasLoader) =>
        LET m == Max(args.mmd_sample_sizes)
            R == args.mmd_n_tests
        IN  /\ \A i \in 1..2 :
                 (obj = "ImageNet" \/ i = 1) =>
                    /\ loaders[i].replacement /\ loaders[i].sampler = "random"
                    /\ loaders[i].num_samples = 3 * m * R
                    /\ loaders[i].batch_size = 3 * m
                    /\ ExpectedBatches(loaders[i]) = R
            /\ obj = "CIFAR" => /\ loaders[2].replacement
                                /\ loaders[2].num_samples = m * R
                                /\ loaders[2].batch_size = m
            /\ groups > 0 => \A i \in 1..2 : group[i] = loaders[i].batch_size
            /\ status = "done" => groups = R

C9_Witness ==
    /\ obj = "ImageNet" /\ args.mode = "mmd" /\ status = "done"
    /\ args.mmd_sample_sizes = {2} /\ args.mmd_n_tests = 2
    /\ groups = 2 /\ group = <<6, 6>>
    /\ it[2].tot = 12 /\ it[2].tot > loaders[2].len

\* C10 (as claimed): the image batch and the label batch handed to the
\* attack function are both on the configured device.
C10_Claim ==
    (IsAttacker /\ call # NoCall) =>
        call.images = att.device /\ call.labels = att.device

====
